---- MODULE Spec2Model ----
(***************************************************************************)
(* Model of src/app.py: the coordinate parser extrair_coordenadas and the  *)
(* row expander expandir_dataframe.                                        *)
(*                                                                         *)
(* A text is a sequence of one-character strings.  A decimal value is a    *)
(* fixed-point integer counted in units of 1/(3600*Escala) of a degree, so *)
(* that graus + min/60 + seg/3600 is exact for seconds tokens that carry   *)
(* at most Casas fraction digits.                                          *)
(***************************************************************************)
EXTENDS Integers, Sequences, FiniteSets

(***************************************************************************)
(* Bounds of the model.                                                    *)
(***************************************************************************)
Casas == 1          \* fraction digits a seconds value may carry
MaxMin == 1         \* minutes values are drawn from 0..MaxMin
MaxLinhas == 3      \* rows of a table
MaxLongas == 2      \* rows of a table that may hold the long cell
Centena == 100      \* pairs in the long cell: first index needing 3 digits

RECURSIVE Pot10(_)
Pot10(k) == IF k = 0 THEN 1 ELSE 10 * Pot10(k - 1)

Escala == Pot10(Casas)

(***************************************************************************)
(* Characters.                                                             *)
(***************************************************************************)
Digitos == <<"0", "1", "2", "3", "4", "5", "6", "7", "8", "9">>
DigitSet == {Digitos[i] : i \in 1..10}
DigitVal(c) == (CHOOSE i \in 1..10 : Digitos[i] = c) - 1

EOT == ""                                   \* what lies past the end of a text
At(t, i) == IF i >= 1 /\ i <= Len(t) THEN t[i] ELSE EOT

Espacos == {" ", "\t"}                      \* \s
SimbolosGrau == {"º", "°"}                  \* [º°]
SegChars == DigitSet \cup {",", "."}        \* [\d,\.]
SepChars == Espacos \cup {",", ";", "e", "E"}   \* [\s,;eE]
HemLat == {"N", "S"}                        \* [NS]
HemLon == {"W", "O"}                        \* [WO]

Minusculas == <<"a", "c", "d", "e", "f", "i", "m", "n", "o", "r", "s", "t", "w", "ã">>
Maiusculas == <<"A", "C", "D", "E", "F", "I", "M", "N", "O", "R", "S", "T", "W", "Ã">>

\* str.upper() on one character
UpperChar(c) ==
    IF \E i \in 1..Len(Minusculas) : Minusculas[i] = c
    THEN Maiusculas[CHOOSE i \in 1..Len(Minusculas) : Minusculas[i] = c]
    ELSE c

\* str.upper()
Upper(t) == [i \in 1..Len(t) |-> UpperChar(t[i])]

RECURSIVE LStrip(_)
LStrip(t) == IF t # <<>> /\ Head(t) \in Espacos THEN LStrip(Tail(t)) ELSE t

RECURSIVE RStrip(_)
RStrip(t) ==
    IF t # <<>> /\ t[Len(t)] \in Espacos THEN RStrip(SubSeq(t, 1, Len(t) - 1)) ELSE t

\* str.strip()
Strip(t) == RStrip(LStrip(t))

\* the sentinel list of extrair_coordenadas
Sentinelas ==
    { <<"N", "Ã", "O", " ", "C", "O", "N", "S", "T", "A">>,
      <<"N", "A", "O", " ", "C", "O", "N", "S", "T", "A">>,
      <<"N", "O", "T", " ", "I", "N", "F", "O", "R", "M", "E", "D">>,
      <<>> }

(***************************************************************************)
(* The regular expression padrao, matched as re.findall matches it.        *)
(*                                                                         *)
(* Every repetition of padrao is greedy and is followed by an element that *)
(* accepts no character of the repeated class, so the only repetition      *)
(* count backtracking can succeed with is the greedy one.                  *)
(***************************************************************************)
RECURSIVE Count(_, _, _, _)
\* number of consecutive characters of class S from position p, at most max
Count(t, p, S, max) ==
    IF max = 0 \/ At(t, p) \notin S THEN 0 ELSE 1 + Count(t, p + 1, S, max - 1)

NoHalf == [ok |-> FALSE, fim |-> 0, graus |-> <<>>, min |-> <<>>, seg |-> <<>>, hem |-> ""]

\* ([NS]) or ([WO]): p..p1 the degrees, p2..p3 the minutes, p4..p5 the seconds
HalfHem(t, p, p1, p3, p5, p7, Hems) ==
    IF /\ p1 > p
       /\ At(t, p1) \in SimbolosGrau
       /\ p3 > p1 + 1
       /\ At(t, p3) = "'"
       /\ p5 > p3 + 1
       /\ At(t, p7) \in Hems
    THEN [ok |-> TRUE, fim |-> p7 + 1,
          graus |-> SubSeq(t, p, p1 - 1),
          min |-> SubSeq(t, p1 + 1, p3 - 1),
          seg |-> SubSeq(t, p3 + 1, p5 - 1),
          hem |-> t[p7]]
    ELSE NoHalf

\* \s*
HalfEspacos(t, p, p1, p3, p5, p6, Hems) ==
    HalfHem(t, p, p1, p3, p5, p6 + Count(t, p6, Espacos, Len(t)), Hems)

\* "?
HalfAspas(t, p, p1, p3, p5, Hems) ==
    HalfEspacos(t, p, p1, p3, p5, IF At(t, p5) = "\"" THEN p5 + 1 ELSE p5, Hems)

\* \'([\d,\.]+)
HalfSeg(t, p, p1, p3, Hems) ==
    HalfAspas(t, p, p1, p3, p3 + 1 + Count(t, p3 + 1, SegChars, Len(t)), Hems)

\* [º°](\d{1,2})
HalfMin(t, p, p1, Hems) ==
    HalfSeg(t, p, p1, p1 + 1 + Count(t, p1 + 1, DigitSet, 2), Hems)

\* (\d{1,3})[º°](\d{1,2})\'([\d,\.]+)"?\s*([NS]) from position p, with the
\* hemisphere class Hems
HalfAt(t, p, Hems) == HalfMin(t, p, p + Count(t, p, DigitSet, 3), Hems)

NoMatch ==
    [ok |-> FALSE, fim |-> 0,
     graus_lat |-> <<>>, min_lat |-> <<>>, seg_lat |-> <<>>, hem_lat |-> "",
     graus_lon |-> <<>>, min_lon |-> <<>>, seg_lon |-> <<>>, hem_lon |-> ""]

\* the tuple re.findall yields for a match
MatchPar(la, lo) ==
    IF lo.ok
    THEN [ok |-> TRUE, fim |-> lo.fim,
          graus_lat |-> la.graus, min_lat |-> la.min, seg_lat |-> la.seg, hem_lat |-> la.hem,
          graus_lon |-> lo.graus, min_lon |-> lo.min, seg_lon |-> lo.seg, hem_lon |-> lo.hem]
    ELSE NoMatch

\* [\s,;eE]* and the longitude half
MatchLon(t, la) ==
    IF la.ok
    THEN MatchPar(la, HalfAt(t, la.fim + Count(t, la.fim, SepChars, Len(t)), HemLon))
    ELSE NoMatch

\* padrao from position p
MatchAt(t, p) == MatchLon(t, HalfAt(t, p, HemLat))

\* re.findall scans the text from left to right: at position p it takes the
\* match that starts there and resumes right after it, or moves one further.
\* A stretch of the scan is [achados: the matches taken, fim: where it resumes].
PassoDe(p, m) ==
    IF m.ok THEN [achados |-> <<m>>, fim |-> m.fim] ELSE [achados |-> <<>>, fim |-> p + 1]

\* one step of the scan at position p
Passo(t, p) ==
    IF p > Len(t) THEN [achados |-> <<>>, fim |-> p] ELSE PassoDe(p, MatchAt(t, p))

\* two stretches, one after the other
Junta(a, b) == [achados |-> a.achados \o b.achados, fim |-> b.fim]

RECURSIVE Varre(_, _, _)
RECURSIVE VarreApos(_, _, _)
\* the stretch of 2^k steps of the scan from position p on
Varre(t, p, k) ==
    IF k = 0 \/ p > Len(t) THEN Passo(t, p) ELSE VarreApos(t, Varre(t, p, k - 1), k)

\* the stretch a followed by the 2^(k-1) steps after it
VarreApos(t, a, k) == Junta(a, Varre(t, a.fim, k - 1))

RECURSIVE Log2(_)
\* the least k with 2^k >= n
Log2(n) == IF n <= 1 THEN 0 ELSE 1 + Log2((n + 1) \div 2)

\* re.findall(padrao, texto): the leftmost non-overlapping matches, in order
\* (the scan ends within Len(t) steps)
Findall(t) == Varre(t, 1, Log2(Len(t))).achados

(***************************************************************************)
(* Conversions of the captured tokens.                                     *)
(***************************************************************************)
\* str.replace(a, b) for one-character a and b
Replace(s, a, b) == [i \in 1..Len(s) |-> IF s[i] = a THEN b ELSE s[i]]

\* a seconds token left as captured (the replace forgotten)
NormalizaSegSemTroca(seg) == seg

\* seg.replace(',', '.')
NormalizaSeg(seg) == Replace(seg, ",", ".")

RECURSIVE IntOf(_)
\* int(s) of a digit sequence
IntOf(s) ==
    IF s = <<>> THEN 0 ELSE 10 * IntOf(SubSeq(s, 1, Len(s) - 1)) + DigitVal(s[Len(s)])

Pontos(s) == {i \in 1..Len(s) : s[i] = "."}
PosPonto(s) == IF Pontos(s) = {} THEN Len(s) + 1 ELSE CHOOSE i \in Pontos(s) : TRUE

\* float(s) accepts a token of digits and '.' exactly when it holds at most
\* one '.' and at least one digit; otherwise it raises ValueError
FloatOk(s) ==
    /\ \A i \in 1..Len(s) : s[i] \in DigitSet \cup {"."}
    /\ Cardinality(Pontos(s)) <= 1
    /\ \E i \in 1..Len(s) : s[i] \in DigitSet

\* the fraction digits f, as a count of 1/Escala (digits past Casas dropped)
FracOf(f) ==
    IntOf([i \in 1..Casas |-> IF i <= Len(f) THEN f[i] ELSE "0"])

\* float(s), in units of 1/Escala
FloatOf(s) ==
    LET d == PosPonto(s)
    IN  IntOf(SubSeq(s, 1, d - 1)) * Escala + FracOf(SubSeq(s, d + 1, Len(s)))

\* int(graus) + int(min)/60 + float(seg)/3600, in units of 1/(3600*Escala)
Decimal(graus, min, seg) ==
    IntOf(graus) * 3600 * Escala + IntOf(min) * 60 * Escala + FloatOf(seg)

\* the sign steps: if hem_lat.upper() == 'S' and if hem_lon.upper() == 'W'
Latitude(m) ==
    LET lat == Decimal(m.graus_lat, m.min_lat, NormalizaSeg(m.seg_lat))
    IN  IF UpperChar(m.hem_lat) = "S" THEN -lat ELSE lat

Longitude(m) ==
    LET lon == Decimal(m.graus_lon, m.min_lon, NormalizaSeg(m.seg_lon))
    IN  IF UpperChar(m.hem_lon) = "W" THEN -lon ELSE lon

\* f"{graus}º{min}'{seg}\"{hem}"
Dms(graus, min, seg, hem) ==
    graus \o <<"º">> \o min \o <<"'">> \o seg \o <<"\"">> \o <<hem>>

\* the dictionary appended to resultados for one match
Ponto(m) ==
    [LATITUDE |-> Latitude(m),
     LONGITUDE |-> Longitude(m),
     LATITUDE_DMS |-> Dms(m.graus_lat, m.min_lat, NormalizaSeg(m.seg_lat), m.hem_lat),
     LONGITUDE_DMS |-> Dms(m.graus_lon, m.min_lon, NormalizaSeg(m.seg_lon), m.hem_lon)]

\* a text argument: a string, or a missing value (None / NaN)
Texto(s) == [isna |-> FALSE, chars |-> s]
Nulo == [isna |-> TRUE, chars |-> <<>>]

Retornou(v) == [erro |-> "", valor |-> v]
Levantou(e) == [erro |-> e, valor |-> <<>>]

\* extrair_coordenadas(texto): the list it returns, or the exception it
\* raises (the loop stops at the first match whose float() fails)
extrair_coordenadas(texto) ==
    IF texto.isna \/ Upper(Strip(texto.chars)) \in Sentinelas
    THEN Retornou(<<>>)
    ELSE LET matches == Findall(texto.chars)
         IN  IF \E i \in 1..Len(matches) :
                    \/ ~FloatOk(NormalizaSeg(matches[i].seg_lat))
                    \/ ~FloatOk(NormalizaSeg(matches[i].seg_lon))
             THEN Levantou("ValueError")
             ELSE Retornou([i \in 1..Len(matches) |-> Ponto(matches[i])])

(***************************************************************************)
(* Input texts.  A pair text is written out from numeric values, so that   *)
(* the values extrair_coordenadas reads back can be compared with them.    *)
(***************************************************************************)
RECURSIVE Dec(_)
\* the decimal digits of n
Dec(n) == IF n < 10 THEN <<Digitos[n + 1]>> ELSE Dec(n \div 10) \o <<Digitos[(n % 10) + 1]>>

RECURSIVE PadDec(_, _)
\* the decimal digits of n, zero-padded on the left to at least w digits
PadDec(n, w) == IF Len(Dec(n)) >= w THEN Dec(n) ELSE <<"0">> \o PadDec(n, w - 1)

\* the last w decimal digits of n, zero-padded
FracDigits(n, w) == [i \in 1..w |-> Digitos[((n \div Pot10(w - i)) % 10) + 1]]

\* the punctuation a pair text is written with
Formatos ==
    << [grau |-> "º", aspas |-> <<"\"">>, ws |-> <<>>,    sep |-> <<" ">>],
       [grau |-> "°", aspas |-> <<>>,     ws |-> <<" ">>, sep |-> <<";", " ">>],
       [grau |-> "º", aspas |-> <<"\"">>, ws |-> <<"\t">>, sep |-> <<" ", "e", " ">>],
       [grau |-> "º", aspas |-> <<>>,     ws |-> <<>>,    sep |-> <<>>] >>

\* seconds values, in units of 1/Escala: 0 and 52.9 (52.09, ... with more places)
SegVals == {0, 52 * Escala + 9}

HemLatLetras == {"N", "S", "n", "s"}
HemLonLetras == {"W", "O", "w", "o"}

\* a seconds token: the whole part, then (when a separator is written) the
\* separator and Casas fraction digits, then (dup) a second separator and digit
SegToken(v, sepdec, dup) ==
    Dec(v \div Escala)
      \o (IF sepdec = "" THEN <<>> ELSE <<sepdec>> \o FracDigits(v % Escala, Casas))
      \o (IF dup THEN <<sepdec, "5">> ELSE <<>>)

CoordTexto(g, m, v, h, sepdec, dup, f) ==
    Dec(g) \o <<f.grau>> \o PadDec(m, 2) \o <<"'">> \o SegToken(v, sepdec, dup)
      \o f.aspas \o f.ws \o <<h>>

ParTexto(e) ==
    LET f == Formatos[e.formato]
    IN  CoordTexto(e.glat, e.mlat, e.slat, e.hlat, e.sepdec, e.dup, f)
          \o f.sep
          \o CoordTexto(e.glon, e.mlon, e.slon, e.hlon, e.sepdec, e.dup, f)

EntradasPar ==
    { e \in [tipo : {"par"}, cru : {0},
             glat : {0, 3}, mlat : 0..MaxMin, slat : SegVals, hlat : HemLatLetras,
             glon : {0, 59}, mlon : 0..MaxMin, slon : SegVals, hlon : HemLonLetras,
             sepdec : {"", ",", "."}, dup : BOOLEAN, formato : 1..Len(Formatos)] :
        e.sepdec = "" => (~e.dup /\ e.slat % Escala = 0 /\ e.slon % Escala = 0) }

\* other texts: missing value, sentinels, texts without a pair, seconds
\* tokens without a digit, "5." and ".5", a 4-digit degree run, two pairs
TextosCrus ==
    << Nulo,
       Texto(<<>>),
       Texto(<<" ", "\t">>),
       Texto(<<"n", "a", "o", " ", "c", "o", "n", "s", "t", "a">>),
       Texto(<<" ", "N", "ã", "o", " ", "C", "o", "n", "s", "t", "a", " ">>),
       Texto(<<"N", "O", "T", " ", "I", "N", "F", "O", "R", "M", "E", "D", "\t">>),
       Texto(<<"s", "e", "m", " ", "d", "a", "d", "o", "s">>),
       Texto(<<"1", "º", "1", "'", "1", "\"", "X", " ", "1", "º", "1", "'", "1", "\"", "W">>),
       Texto(<<"1", "º", "1", "'", ",", "\"", "N", " ", "1", "º", "1", "'", "1", "\"", "W">>),
       Texto(<<"1", "º", "1", "'", "1", "N", "1", "º", "1", "'", ".", "W">>),
       Texto(<<"1", "º", "1", "'", "5", ".", "N", "1", "º", "1", "'", ".", "5", "W">>),
       Texto(<<"1", "2", "3", "4", "º", "1", "'", "1", "N", "1", "º", "1", "'", "1", "W">>),
       Texto(<<"1", "º", "1", "'", "1", "N", "2", "º", "2", "'", "2", "W", ";", " ",
               "3", "º", "3", "'", "3", "S", "4", "º", "4", "'", "4", "O">>) >>

EntradasCruas ==
    { [tipo |-> "cru", cru |-> k,
       glat |-> 0, mlat |-> 0, slat |-> 0, hlat |-> "N",
       glon |-> 0, mlon |-> 0, slon |-> 0, hlon |-> "W",
       sepdec |-> "", dup |-> FALSE, formato |-> 1] : k \in 1..Len(TextosCrus) }

Entradas == EntradasPar \cup EntradasCruas

TextoDe(e) == IF e.tipo = "par" THEN Texto(ParTexto(e)) ELSE TextosCrus[e.cru]

(***************************************************************************)
(* Tables.  A cell value is a string, a number or a missing value; a row   *)
(* is a function from column names to cell values; a dictionary keeps its  *)
(* keys in insertion order.                                                *)
(***************************************************************************)
Str(s) == [t |-> "str", s |-> s, n |-> 0]
Num(n) == [t |-> "num", s |-> <<>>, n |-> n]
NaN == [t |-> "nan", s |-> <<>>, n |-> 0]

\* str(value) of a cell
StrDe(v) ==
    CASE v.t = "str" -> v.s
      [] v.t = "nan" -> <<"n", "a", "n">>
      [] OTHER -> IF v.n < 0 THEN <<"-">> \o Dec(-v.n) ELSE Dec(v.n)

Range(q) == {q[i] : i \in 1..Len(q)}

\* row.to_dict()
ToDict(columns, row) == [keys |-> columns, val |-> row]

\* d[k] = v
DictSet(d, k, v) ==
    [keys |-> IF k \in Range(d.keys) THEN d.keys ELSE Append(d.keys, k),
     val |-> [x \in (DOMAIN d.val) \cup {k} |-> IF x = k THEN v ELSE d.val[x]]]

\* a label numbered from zero (enumerate without its start argument)
PontoLabelBaseZero(i) == <<"P">> \o PadDec(i - 1, 2)

\* f"P{i:02d}"
PontoLabel(i) == <<"P">> \o PadDec(i, 2)

\* nova_linha.update(ponto)
Update(d, ponto) ==
    DictSet(DictSet(DictSet(DictSet(d,
        "LATITUDE", Num(ponto.LATITUDE)),
        "LONGITUDE", Num(ponto.LONGITUDE)),
        "LATITUDE_DMS", Str(ponto.LATITUDE_DMS)),
        "LONGITUDE_DMS", Str(ponto.LONGITUDE_DMS))

\* the body of the inner loop for the i-th ponto of a row
NovaLinha(columns, row, i, ponto) ==
    Update(DictSet(ToDict(columns, row), "PONTO", Str(PontoLabel(i))), ponto)

\* the rows of one source row with its pontos taken last to first
NovasLinhasInvertidas(columns, row, pontos) ==
    [i \in 1..Len(pontos) |-> NovaLinha(columns, row, i, pontos[Len(pontos) + 1 - i])]

\* the rows the inner loop appends for one source row
NovasLinhas(columns, row, pontos) ==
    [i \in 1..Len(pontos) |-> NovaLinha(columns, row, i, pontos[i])]

\* pd.DataFrame(list of dictionaries): the columns are the keys of the
\* dictionaries; an empty list gives a table without columns
DataFrame(linhas) ==
    [erro |-> "",
     columns |-> IF linhas = <<>> THEN <<>> ELSE linhas[1].keys,
     rows |-> [i \in 1..Len(linhas) |-> linhas[i].val]]

SemRetorno == [erro |-> "", columns |-> <<>>, rows |-> <<>>]
Excecao(e) == [erro |-> e, columns |-> <<>>, rows |-> <<>>]

(***************************************************************************)
(* Input tables.                                                           *)
(***************************************************************************)
UmPar ==
    <<"3", "º", "0", "3", "'", "5", "2", ",", "9", "\"", "S", " ",
      "5", "9", "º", "5", "4", "'", "4", "6", ",", "6", "\"", "W">>

DoisPares ==
    <<"1", "º", "0", "1", "'", "1", "\"", "N", " ", "e", " ", "2", "º", "0", "2", "'", "2", "\"", "W",
      ";", " ",
      "3", "°", "3", "'", "3", ".", "5", " ", "S", ",", "4", "°", "4", "'", "4", " ", "O">>

SegInvalido ==
    <<"1", "º", "1", "'", "1", ".", "2", ".", "3", "\"", "S", " ", "1", "º", "1", "'", "1", "\"", "W">>

ParCurto == <<"1", "º", "1", "'", "1", "N", "1", "º", "1", "'", "1", "W">>

\* k copies of s, one after the other
Repete(s, k) == [i \in 1..(Len(s) * k) |-> s[((i - 1) % Len(s)) + 1]]

\* a cell that holds Centena pairs
MuitosPares == Repete(ParCurto, Centena)

CelulasCoord == {NaN, Str(UmPar), Str(DoisPares), Str(SegInvalido)}
CelulasLongas == CelulasCoord \cup {Str(MuitosPares)}
CelulasOutras == {Str(<<"a">>), Str(<<"b">>)}

\* column layouts: the second one has a source column named like an added field
Layouts == << <<"ID", "COORD">>, <<"PONTO", "COORD">> >>

\* the rows over the columns, with coordinate cells from Coord and the other
\* cells from Outras
LinhasDe(columns, Coord, Outras) ==
    { [c \in Range(columns) |-> IF c = "COORD" THEN v ELSE w] : v \in Coord, w \in Outras }

\* the tables of at most max rows over the columns
TabelasDe(columns, Coord, Outras, max) ==
    UNION { { [columns |-> columns, rows |-> r] :
                r \in [1..n -> LinhasDe(columns, Coord, Outras)] } : n \in 0..max }

Tabelas ==
    TabelasDe(Layouts[1], CelulasCoord, CelulasOutras, MaxLinhas)
      \cup TabelasDe(Layouts[2], CelulasCoord, {Str(<<"a">>)}, MaxLinhas)

\* tables with a cell that holds Centena pairs
TabelasLongas == TabelasDe(Layouts[1], CelulasLongas, {Str(<<"a">>)}, MaxLongas)

TabelaVazia == [columns |-> <<>>, rows |-> <<>>]

NomesColuna == {"COORD", "X"}

(***************************************************************************)
(* State.                                                                  *)
(***************************************************************************)
VARIABLES
    entrada,             \* what the text of the parser call was written from
    texto,               \* argument of the extrair_coordenadas call
    resultados,          \* what the extrair_coordenadas call returned or raised
    ppc,                 \* position of the extrair_coordenadas call
    df,                  \* argument of the expandir_dataframe call
    coluna_coordenadas,  \* argument of the expandir_dataframe call
    idx,                 \* the row the outer loop of expandir_dataframe is at
    linhas_expandidas,   \* local list of expandir_dataframe
    retorno,             \* what the expandir_dataframe call returned or raised
    pc                   \* position of the expandir_dataframe call

varsParse == <<entrada, texto, resultados, ppc>>
varsExpand == <<df, coluna_coordenadas, idx, linhas_expandidas, retorno, pc>>
vars == <<entrada, texto, resultados, ppc, df, coluna_coordenadas, idx, linhas_expandidas,
          retorno, pc>>

ParseFora ==
    /\ entrada \in {e \in EntradasCruas : e.cru = 1}
    /\ texto = Nulo
    /\ resultados = Retornou(<<>>)
    /\ ppc = "fora"

ExpandFora ==
    /\ df = TabelaVazia
    /\ coluna_coordenadas = "COORD"
    /\ idx = 1
    /\ linhas_expandidas = <<>>
    /\ retorno = SemRetorno
    /\ pc = "fora"

(***************************************************************************)
(* A call of extrair_coordenadas.                                          *)
(***************************************************************************)
InitParse ==
    /\ entrada \in Entradas
    /\ texto = TextoDe(entrada)
    /\ resultados = Retornou(<<>>)
    /\ ppc = "chamada"
    /\ ExpandFora

Extrair ==
    /\ ppc = "chamada"
    /\ \E r \in {extrair_coordenadas(texto)} :
          /\ resultados' = r
          /\ ppc' = IF r.erro = "" THEN "retornou" ELSE "levantou"
    /\ UNCHANGED <<entrada, texto>>
    /\ UNCHANGED varsExpand

NextParse == Extrair

SpecParse == InitParse /\ [][NextParse]_vars

(***************************************************************************)
(* A call of expandir_dataframe.                                           *)
(***************************************************************************)
Chamada(tabelas) ==
    /\ ParseFora
    /\ df \in tabelas
    /\ coluna_coordenadas \in NomesColuna
    /\ idx = 1
    /\ linhas_expandidas = <<>>
    /\ retorno = SemRetorno
    /\ pc = "chamada"

Init == Chamada(Tabelas)

InitLongo == Chamada(TabelasLongas)

\* linhas_expandidas = [] and the start of df.iterrows()
Iniciar ==
    /\ pc = "chamada"
    /\ linhas_expandidas' = <<>>
    /\ idx' = 1
    /\ pc' = "loop"
    /\ UNCHANGED <<df, coluna_coordenadas, retorno>>
    /\ UNCHANGED varsParse

\* row[coluna_coordenadas] for a name that is no column: KeyError
LinhaKeyError ==
    /\ pc = "loop"
    /\ idx <= Len(df.rows)
    /\ coluna_coordenadas \notin Range(df.columns)
    /\ retorno' = Excecao("KeyError")
    /\ pc' = "levantou"
    /\ UNCHANGED <<df, coluna_coordenadas, idx, linhas_expandidas>>
    /\ UNCHANGED varsParse

\* the text handed to extrair_coordenadas for the row at idx
TextoDaLinha == Texto(StrDe(df.rows[idx][coluna_coordenadas]))

\* extrair_coordenadas raises inside the loop
LinhaValueError ==
    /\ pc = "loop"
    /\ idx <= Len(df.rows)
    /\ coluna_coordenadas \in Range(df.columns)
    /\ \E r \in {extrair_coordenadas(TextoDaLinha)} :
          /\ r.erro # ""
          /\ retorno' = Excecao(r.erro)
    /\ pc' = "levantou"
    /\ UNCHANGED <<df, coluna_coordenadas, idx, linhas_expandidas>>
    /\ UNCHANGED varsParse

\* one pass of the outer loop: the inner loop appends one row per ponto
ExpandirLinha ==
    /\ pc = "loop"
    /\ idx <= Len(df.rows)
    /\ coluna_coordenadas \in Range(df.columns)
    /\ \E r \in {extrair_coordenadas(TextoDaLinha)} :
          /\ r.erro = ""
          /\ linhas_expandidas' =
               linhas_expandidas \o NovasLinhas(df.columns, df.rows[idx], r.valor)
    /\ idx' = idx + 1
    /\ UNCHANGED <<df, coluna_coordenadas, retorno, pc>>
    /\ UNCHANGED varsParse

\* return pd.DataFrame(linhas_expandidas)
Retornar ==
    /\ pc = "loop"
    /\ idx > Len(df.rows)
    /\ retorno' = DataFrame(linhas_expandidas)
    /\ pc' = "retornou"
    /\ UNCHANGED <<df, coluna_coordenadas, idx, linhas_expandidas>>
    /\ UNCHANGED varsParse

Next ==
    \/ Iniciar
    \/ LinhaKeyError
    \/ LinhaValueError
    \/ ExpandirLinha
    \/ Retornar

Spec == Init /\ [][Next]_vars

SpecLongo == InitLongo /\ [][Next]_vars

(***************************************************************************)
(* Properties of extrair_coordenadas, checked under SpecParse.             *)
(***************************************************************************)
ParseTerminou == ppc \in {"retornou", "levantou"}

\* the text was written from one pair that follows the grammar: one
\* separator at most in each seconds token (hemisphere letters of either case)
BemFormada == entrada.tipo = "par" /\ ~entrada.dup

UltimoChar(s) == s[Len(s)]

\* C1: extrair_coordenadas never fails: every call, whatever the text,
\* returns a sequence of pairs and never ends in an error.
C1_NuncaFalha == ParseTerminou => (ppc = "retornou" /\ resultados.erro = "")

\* The sign of a value under a hemisphere letter.  The fixed-point values do
\* not tell -0.0 from 0.0, so a zero satisfies both readings.
SinalConforme(letra, negativas, v) ==
    IF UpperChar(letra) \in negativas THEN v <= 0 ELSE v >= 0

\* C3: hemisphere sign rule: for every extracted pair, S gives a negative
\* latitude and N a non-negative one; W or O gives a negative longitude and
\* any other accepted letter a non-negative one.
C3_RegraDeSinal ==
    (ppc = "retornou" /\ entrada.tipo = "par") =>
        \A i \in 1..Len(resultados.valor) :
            /\ SinalConforme(UltimoChar(resultados.valor[i].LATITUDE_DMS), {"S"},
                             resultados.valor[i].LATITUDE)
            /\ SinalConforme(UltimoChar(resultados.valor[i].LONGITUDE_DMS), {"W", "O"},
                             resultados.valor[i].LONGITUDE)

\* the same pair with its hemisphere letters in upper case
EmMaiusculas(e) == [e EXCEPT !.hlat = UpperChar(@), !.hlon = UpperChar(@)]

TemMinuscula(e) == e.hlat # UpperChar(e.hlat) \/ e.hlon # UpperChar(e.hlon)

MesmosDecimais(r, q) ==
    /\ q.erro = "" /\ Len(q.valor) = 1
    /\ r.valor[1].LATITUDE = q.valor[1].LATITUDE
    /\ r.valor[1].LONGITUDE = q.valor[1].LONGITUDE

\* C4: hemisphere letters are accepted in either case: a well-formed pair
\* text with a lower-case hemisphere letter still yields exactly one pair,
\* with the decimal values of the upper-case text and with the DMS texts
\* carrying the letters as written.
C4_HemisferioSemCaixa ==
    (ParseTerminou /\ BemFormada /\ TemMinuscula(entrada)) =>
        /\ resultados.erro = ""
        /\ Len(resultados.valor) = 1
        /\ MesmosDecimais(resultados, extrair_coordenadas(TextoDe(EmMaiusculas(entrada))))
        /\ UltimoChar(resultados.valor[1].LATITUDE_DMS) = entrada.hlat
        /\ UltimoChar(resultados.valor[1].LONGITUDE_DMS) = entrada.hlon

\* sign * (deg + min/60 + sec/3600) from the numbers the text was written
\* from, in units of 1/(3600*Escala)
ValorEsperado(letra, negativas, g, m, v) ==
    IF UpperChar(letra) \in negativas
    THEN -(g * 3600 * Escala + m * 60 * Escala + v)
    ELSE g * 3600 * Escala + m * 60 * Escala + v

\* C5: for every text that holds exactly one well-formed pair, the call
\* returns exactly one pair whose decimal fields equal
\* sign * (deg + min/60 + sec/3600) of the degree, minute and seconds tokens.
C5_ConversaoDecimal ==
    (ParseTerminou /\ BemFormada) =>
        /\ resultados.erro = ""
        /\ Len(resultados.valor) = 1
        /\ resultados.valor[1].LATITUDE =
             ValorEsperado(entrada.hlat, {"S"}, entrada.glat, entrada.mlat, entrada.slat)
        /\ resultados.valor[1].LONGITUDE =
             ValorEsperado(entrada.hlon, {"W", "O"}, entrada.glon, entrada.mlon, entrada.slon)

\* the same pair with the other decimal separator in its seconds tokens
OutroSeparador(e) == [e EXCEPT !.sepdec = IF @ = "," THEN "." ELSE ","]

\* the DMS text of a coordinate whose seconds are written with '.'
DmsComPonto(g, m, v, dup, h) ==
    Dec(g) \o <<"º">> \o PadDec(m, 2) \o <<"'">> \o SegToken(v, ".", dup) \o <<"\"", h>>

DmsComPontos(e, r) ==
    \A i \in 1..Len(r.valor) :
        /\ r.valor[i].LATITUDE_DMS = DmsComPonto(e.glat, e.mlat, e.slat, e.dup, e.hlat)
        /\ r.valor[i].LONGITUDE_DMS = DmsComPonto(e.glon, e.mlon, e.slon, e.dup, e.hlon)

\* C9: decimal-separator normalization: a pair text gives the same result
\* (the same decimal values and DMS texts, or the same failure) whether its
\* seconds tokens are written with ',' or with '.'; the DMS texts carry the
\* seconds with '.'; normalizing a token written with '.' changes nothing.
C9_SeparadorDecimal ==
    (ParseTerminou /\ entrada.tipo = "par" /\ entrada.sepdec # "") =>
        /\ resultados = extrair_coordenadas(TextoDe(OutroSeparador(entrada)))
        /\ DmsComPontos(entrada, resultados)
        /\ NormalizaSeg(SegToken(entrada.slat, ".", entrada.dup))
             = SegToken(entrada.slat, ".", entrada.dup)

\* a call on a text written with ',' returned one pair
C9_Witness ==
    /\ ppc = "retornou"
    /\ entrada.tipo = "par"
    /\ entrada.sepdec = ","
    /\ entrada.slat % Escala # 0
    /\ Len(resultados.valor) = 1

(***************************************************************************)
(* Properties of expandir_dataframe, checked under Spec and SpecLongo.     *)
(***************************************************************************)
ExpandTerminou == pc \in {"retornou", "levantou"}

ColunaValida == coluna_coordenadas \in Range(df.columns)

\* the five fields expandir_dataframe adds to a row
Adicionadas == {"PONTO", "LATITUDE", "LONGITUDE", "LATITUDE_DMS", "LONGITUDE_DMS"}

\* the pairs extrair_coordenadas returns for the cell of source row i
PontosDaLinha(i) ==
    extrair_coordenadas(Texto(StrDe(df.rows[i][coluna_coordenadas]))).valor

RECURSIVE Origens(_)
\* <<i, j>> for every source row i <= n and every pair j of it: source rows
\* in their order, the pairs of a row in extraction order
Origens(n) ==
    IF n = 0 THEN <<>>
    ELSE Origens(n - 1) \o [j \in 1..Len(PontosDaLinha(n)) |-> <<n, j>>]

\* C2: for every table, also one without rows, and every name that is no
\* column of it, expandir_dataframe ends with the column-not-found error and
\* produces no output row.
C2_ColunaInexistente ==
    (ExpandTerminou /\ ~ColunaValida) =>
        (pc = "levantou" /\ retorno.erro = "KeyError" /\ retorno.rows = <<>>)

\* the output row linha carries pair ponto and the fields of source row row
\* that are not overwritten
VemDe(linha, row, ponto) ==
    /\ linha["LATITUDE"] = Num(ponto.LATITUDE)
    /\ linha["LONGITUDE"] = Num(ponto.LONGITUDE)
    /\ linha["LATITUDE_DMS"] = Str(ponto.LATITUDE_DMS)
    /\ linha["LONGITUDE_DMS"] = Str(ponto.LONGITUDE_DMS)
    /\ \A c \in (DOMAIN row) \ Adicionadas : linha[c] = row[c]

\* the rows are, one by one and in this order, the pairs named by origens
NaOrdem(rows, origens) ==
    /\ Len(rows) = Len(origens)
    /\ \A k \in 1..Len(rows) :
          VemDe(rows[k], df.rows[origens[k][1]], PontosDaLinha(origens[k][1])[origens[k][2]])

RECURSIVE SomaPares(_)
\* the sum of the pair counts of the source rows 1..n
SomaPares(n) == IF n = 0 THEN 0 ELSE SomaPares(n - 1) + Len(PontosDaLinha(n))

\* C6: row-expansion order: the output is the concatenation, over the source
\* rows in their order, of one output row per pair of the row's cell, in
\* extraction order; a row without pairs contributes nothing, so the output
\* length is the sum of the per-row pair counts.
C6_OrdemDeExpansao ==
    (pc = "retornou" /\ ColunaValida) =>
        /\ NaOrdem(retorno.rows, Origens(Len(df.rows)))
        /\ Len(retorno.rows) = SomaPares(Len(df.rows))

\* a returned table built from source rows with 2, 0 and 1 pairs
C6_Witness ==
    /\ pc = "retornou"
    /\ ColunaValida
    /\ Len(df.rows) = 3
    /\ Len(PontosDaLinha(1)) = 2
    /\ Len(PontosDaLinha(2)) = 0
    /\ Len(PontosDaLinha(3)) = 1
    /\ Len(retorno.rows) = 3

\* the label s is "P" and exactly two digits that denote i
RotuloDoisDigitos(s, i) ==
    /\ Len(s) = 3
    /\ s[1] = "P"
    /\ s[2] \in DigitSet /\ s[3] \in DigitSet
    /\ IntOf(SubSeq(s, 2, 3)) = i

\* the label s is "P" and the decimal digits of i, zero-padded to two digits
\* when i has fewer
RotuloAoMenosDois(s, i) ==
    /\ Len(s) >= 3
    /\ s[1] = "P"
    /\ \A k \in 2..Len(s) : s[k] \in DigitSet
    /\ IntOf(SubSeq(s, 2, Len(s))) = i
    /\ (Len(s) > 3 => s[2] # "0")

\* labels of the same source row differ
RotulosDistintos(rows, origens) ==
    \A k, l \in 1..Len(rows) :
        (k # l /\ origens[k][1] = origens[l][1]) => rows[k]["PONTO"] # rows[l]["PONTO"]

RotulosDoisDigitos(rows, origens) ==
    /\ Len(rows) = Len(origens)
    /\ \A k \in 1..Len(rows) : RotuloDoisDigitos(rows[k]["PONTO"].s, origens[k][2])
    /\ RotulosDistintos(rows, origens)

RotulosAoMenosDois(rows, origens) ==
    /\ Len(rows) = Len(origens)
    /\ \A k \in 1..Len(rows) : RotuloAoMenosDois(rows[k]["PONTO"].s, origens[k][2])
    /\ RotulosDistintos(rows, origens)

\* C7 as stated: the row built from the i-th pair of a source row is labelled
\* "P" and i zero-padded to exactly 2 digits; numbering restarts for every
\* source row; labels of one source row are distinct and in extraction order.
C7_RotulosExatamenteDois ==
    (pc = "retornou" /\ ColunaValida) =>
        RotulosDoisDigitos(retorno.rows, Origens(Len(df.rows)))

\* C7 amended: the row built from the i-th pair of a source row is labelled
\* "P" and i zero-padded to at least 2 digits (exactly 2 digits up to the
\* 99th pair, the plain digits of i from the 100th on); numbering restarts
\* for every source row; labels of one source row are distinct and in order.
C7_Rotulos ==
    (pc = "retornou" /\ ColunaValida) =>
        RotulosAoMenosDois(retorno.rows, Origens(Len(df.rows)))

\* a returned table whose second source row yields a pair past the 99th
C7_Witness ==
    /\ pc = "retornou"
    /\ ColunaValida
    /\ Len(df.rows) = 2
    /\ Len(PontosDaLinha(1)) = 2
    /\ Len(PontosDaLinha(2)) = Centena
    /\ \E k \in 1..Len(retorno.rows) : retorno.rows[k]["PONTO"].s = <<"P", "1", "0", "0">>

\* every column of the source row has its value in the output row
CopiaVerbatim(rows, origens) ==
    /\ Len(rows) = Len(origens)
    /\ \A k \in 1..Len(rows) :
          \A c \in Range(df.columns) : rows[k][c] = df.rows[origens[k][1]][c]

\* C8: source fields are copied verbatim: every output row holds, for every
\* column of the source table, whatever its name, the value of the source
\* row it was built from.
C8_CamposCopiados ==
    (pc = "retornou" /\ ColunaValida) =>
        CopiaVerbatim(retorno.rows, Origens(Len(df.rows)))

\* C10: every returned table, also one without rows, has as its columns the
\* source columns and the five added ones, and every output row has a value
\* for each added column (stated for the calls that name a column of df).
C10_Colunas ==
    (pc = "retornou" /\ ColunaValida) =>
        /\ Range(retorno.columns) = Range(df.columns) \cup Adicionadas
        /\ \A k \in 1..Len(retorno.rows) : Adicionadas \subseteq DOMAIN retorno.rows[k]

====
